---- MODULE Spec2Model ----
(***************************************************************************)
(* Model of the transit backend's key-policy path handlers                 *)
(* (builtin/logical/transit/path_keys.go): pathPolicyWrite,                *)
(* pathPolicyRead, pathPolicyDelete and the codec helper extractOpenPGP.   *)
(* The policy store (keysutil lock manager) and the derivation engine are  *)
(* modelled from the design document, the handlers from their code.        *)
(***************************************************************************)
EXTENDS Integers, Sequences, FiniteSets, TLC

\* ------------------------------------------------------------------------
\* Bounds
\* ------------------------------------------------------------------------
NumProcs == 2
MaxVersions == 2
MaxRequests == 3

Procs == 1..NumProcs
\* the material that the random reader may yield for a new key
Seeds == {"s1", "s2"}
Names == {"k1"}

\* ------------------------------------------------------------------------
\* Key types (switch of pathPolicyWrite)
\* ------------------------------------------------------------------------
KeyTypeOf ==
  [ t \in {"aes128-gcm96", "aes256-gcm96", "chacha20-poly1305", "ecdsa-p256",
           "ecdsa-p384", "ecdsa-p521", "ed25519", "rsa-2048", "rsa-4096",
           "openpgp"} |->
      CASE t = "aes128-gcm96"      -> "KeyType_AES128_GCM96"
        [] t = "aes256-gcm96"      -> "KeyType_AES256_GCM96"
        [] t = "chacha20-poly1305" -> "KeyType_ChaCha20_Poly1305"
        [] t = "ecdsa-p256"        -> "KeyType_ECDSA_P256"
        [] t = "ecdsa-p384"        -> "KeyType_ECDSA_P384"
        [] t = "ecdsa-p521"        -> "KeyType_ECDSA_P521"
        [] t = "ed25519"           -> "KeyType_ED25519"
        [] t = "rsa-2048"          -> "KeyType_RSA2048"
        [] t = "rsa-4096"          -> "KeyType_RSA4096"
        [] t = "openpgp"           -> "KeyType_OpenPGP" ]

RecognizedTypes == DOMAIN KeyTypeOf

\* the type strings a request may carry: the recognized ones and one that
\* the switch does not know
TypeInputs == RecognizedTypes \cup {"bogus"}

KeyTypes == { KeyTypeOf[t] : t \in RecognizedTypes }

SymmetricTypes ==
  {"KeyType_AES128_GCM96", "KeyType_AES256_GCM96", "KeyType_ChaCha20_Poly1305"}

AsymmetricTypes ==
  {"KeyType_ECDSA_P256", "KeyType_ECDSA_P384", "KeyType_ECDSA_P521",
   "KeyType_ED25519", "KeyType_RSA2048", "KeyType_RSA4096", "KeyType_OpenPGP"}

\* ------------------------------------------------------------------------
\* base64.StdEncoding.DecodeString, on strings given as sequences of
\* one-character strings
\* ------------------------------------------------------------------------
B64Alphabet ==
  << "A","B","C","D","E","F","G","H","I","J","K","L","M","N","O","P",
     "Q","R","S","T","U","V","W","X","Y","Z","a","b","c","d","e","f",
     "g","h","i","j","k","l","m","n","o","p","q","r","s","t","u","v",
     "w","x","y","z","0","1","2","3","4","5","6","7","8","9","+","/" >>

B64Val(c) ==
  IF \E i \in 1..64 : B64Alphabet[i] = c
    THEN (CHOOSE i \in 1..64 : B64Alphabet[i] = c) - 1
    ELSE -1

\* the decoder skips carriage returns and line feeds
B64Strip(s) == SelectSeq(s, LAMBDA c : c \notin {"\n", "\r"})

\* one quantum of four characters; last says whether padding may appear
B64Quantum(q, last) ==
  LET v1 == B64Val(q[1])
      v2 == B64Val(q[2])
      v3 == B64Val(q[3])
      v4 == B64Val(q[4])
  IN  IF v1 < 0 \/ v2 < 0
        THEN [ok |-> FALSE, bytes |-> <<>>]
      ELSE IF v3 >= 0 /\ v4 >= 0
        THEN [ok |-> TRUE,
              bytes |-> << (v1 * 4 + (v2 \div 16)) % 256,
                           ((v2 % 16) * 16 + (v3 \div 4)) % 256,
                           ((v3 % 4) * 64 + v4) % 256 >>]
      ELSE IF last /\ q[3] = "=" /\ q[4] = "="
        THEN [ok |-> TRUE, bytes |-> << (v1 * 4 + (v2 \div 16)) % 256 >>]
      ELSE IF last /\ v3 >= 0 /\ q[4] = "="
        THEN [ok |-> TRUE,
              bytes |-> << (v1 * 4 + (v2 \div 16)) % 256,
                           ((v2 % 16) * 16 + (v3 \div 4)) % 256 >>]
      ELSE [ok |-> FALSE, bytes |-> <<>>]

RECURSIVE B64Quanta(_)
B64Quanta(s) ==
  IF Len(s) = 0 THEN [ok |-> TRUE, bytes |-> <<>>]
  ELSE IF Len(s) < 4 THEN [ok |-> FALSE, bytes |-> <<>>]
  ELSE LET head == B64Quantum(SubSeq(s, 1, 4), Len(s) = 4)
           rest == B64Quanta(SubSeq(s, 5, Len(s)))
       IN  IF head.ok /\ rest.ok
             THEN [ok |-> TRUE, bytes |-> head.bytes \o rest.bytes]
             ELSE [ok |-> FALSE, bytes |-> <<>>]

DecodeString(s) == B64Quanta(B64Strip(s))

\* base64.StdEncoding.EncodeToString, as a symbolic term over its argument
EncodeToString(b) == << "base64", b >>

\* ed25519.PrivateKey(seed).Public(), as a symbolic term over the seed
Ed25519Public(seed) == << "ed25519.pub", seed >>

\* strconv.Atoi on the version keys that occur
Atoi(k) ==
  CASE k = "1" -> [ok |-> TRUE, val |-> 1]
    [] k = "2" -> [ok |-> TRUE, val |-> 2]
    [] k = "3" -> [ok |-> TRUE, val |-> 3]
    [] OTHER   -> [ok |-> FALSE, val |-> 0]

Itoa(v) == CASE v = 1 -> "1" [] v = 2 -> "2" [] v = 3 -> "3" [] OTHER -> "?"

\* ------------------------------------------------------------------------
\* Policies and key entries (keysutil.Policy, keysutil.KeyEntry)
\* ------------------------------------------------------------------------
\* what openpgp.ReadKeyRing makes of the stored bytes of a key
RingKinds == {"not_pgp", "unparsable", "empty", "entity_noid", "entity_one",
              "entity_two"}

RingIdentities(ring) ==
  CASE ring = "entity_one" -> {"alice"}
    [] ring = "entity_two" -> {"alice", "bob"}
    [] OTHER               -> {}

KeyMaterial(seed, ring) == [seed |-> seed, ring |-> ring]

FormattedPublicKey(type, key) ==
  IF type \in {"KeyType_ECDSA_P256", "KeyType_ECDSA_P384", "KeyType_ECDSA_P521",
               "KeyType_ED25519"}
    THEN << "pub", type, key.seed >>
    ELSE <<>>

KeyEntry(type, key, legacy) ==
  [ Key                    |-> key,
    FormattedPublicKey     |-> FormattedPublicKey(type, key),
    CreationTime           |-> IF legacy THEN 0 ELSE 1,
    DeprecatedCreationTime |-> 1 ]

\* the identity fields a request for an OpenPGP key carries
IdentityInputs == { [realName |-> "Alice", email |-> "alice@example.com",
                     comment |-> "test key"] }

NoIdentity == [realName |-> "", email |-> "", comment |-> ""]

Policy(name, type, derived, convergent, exportable, allowPlaintextBackup, deletionAllowed, ident, keys, latest) ==
  [ Name                 |-> name,
    Type                 |-> type,
    Derived              |-> derived,
    KDF                  |-> "Kdf_hkdf_sha256",
    ConvergentEncryption |-> convergent,
    ConvergentVersion    |-> IF convergent THEN 2 ELSE 0,
    Exportable           |-> exportable,
    AllowPlaintextBackup |-> allowPlaintextBackup,
    DeletionAllowed      |-> deletionAllowed,
    MinAvailableVersion  |-> 0,
    MinDecryptionVersion |-> 1,
    MinEncryptionVersion |-> 0,
    LatestVersion        |-> latest,
    RealName             |-> ident.realName,
    Email                |-> ident.email,
    Comment              |-> ident.comment,
    Keys                 |-> keys ]

NilPolicy == [ Name |-> "", Type |-> "nil", Keys |-> <<>> ]

\* ------------------------------------------------------------------------
\* Key derivation engine (Policy.DeriveKey): a deterministic function of
\* the version's material, the context, the version and the length, as a
\* symbolic term; a version that the policy does not hold is an error
\* ------------------------------------------------------------------------
DeriveKey(p, context, ver, numBytes) ==
  IF \/ ~p.Derived
     \/ Len(context) = 0
     \/ ver < 1
     \/ ver > p.LatestVersion
     \/ Itoa(ver) \notin DOMAIN p.Keys
    THEN [ok |-> FALSE, key |-> <<>>]
    ELSE [ok |-> TRUE,
          key |-> << "derived", p.KDF, p.Keys[Itoa(ver)].Key.seed, context,
                     ver, numBytes >>]

\* ------------------------------------------------------------------------
\* extractOpenPGP(key, blockType): the calls into the openpgp and armor
\* packages fail when named in faults; pick is the identity that the
\* iteration over entity.Identities meets first
\* ------------------------------------------------------------------------
PublicKeyType == "PGP PUBLIC KEY BLOCK"
PrivateKeyType == "PGP PRIVATE KEY BLOCK"

PGPCalls == {"armor.Encode", "Serialize", "Write", "Close"}

\* the text that the buffer holds once the encoder has been written to and
\* closed: body is what went in, complete says whether all of it did
Armored(blockType, body, complete) ==
  << "armor", blockType, body, IF complete THEN "complete" ELSE "partial" >>

PGPReturn(retkey, identity, err) ==
  [retkey |-> retkey, identity |-> identity, err |-> err]

extractOpenPGP(key, blockType, faults, pick) ==
  IF key.ring \in {"not_pgp", "unparsable"}
    THEN PGPReturn(<<>>, "", "openpgp: invalid data")
  ELSE IF key.ring = "empty"
    THEN PGPReturn(<<>>, "", "No entities found in OpenPGP key ring")
  ELSE
    LET identity == IF RingIdentities(key.ring) # {} THEN pick ELSE ""
    IN  CASE blockType = PublicKeyType ->
               IF "armor.Encode" \in faults
                 THEN PGPReturn(<<>>, "", "armor.Encode failed")
               ELSE IF "Serialize" \in faults \/ "Close" \in faults
                 THEN PGPReturn(<<>>, "",
                        "Issue Serializing OpenPGP Armored information")
               ELSE PGPReturn(Armored(blockType, <<"public", key.seed>>, TRUE),
                              identity, "nil")
          [] blockType = PrivateKeyType ->
               IF "armor.Encode" \in faults
                 THEN PGPReturn(<<>>, "", "armor.Encode failed")
               \* the result of Write is dropped; on a failing Close the
               \* error returned is the one of armor.Encode, which is nil
               ELSE IF "Close" \in faults
                 THEN PGPReturn(<<>>, "", "nil")
               ELSE PGPReturn(Armored(blockType, <<"private", key.seed>>,
                                      "Write" \notin faults),
                              identity, "nil")
          [] OTHER -> PGPReturn(<<>>, "", "Incorrect blockType")

\* ------------------------------------------------------------------------
\* Responses (logical.Response, error)
\* ------------------------------------------------------------------------
NoData == [header |-> <<>>, keys |-> <<>>]

Response(resp, err, msg, warnings, data) ==
  [resp |-> resp, err |-> err, msg |-> msg, warnings |-> warnings,
   data |-> data]

NilResponse == Response("nil", "nil", "", {}, NoData)

\* logical.ErrorResponse(msg) returned with err
ErrorResponse(msg, err) == Response("error", err, msg, {}, NoData)

\* return nil, err
ErrorOnly(err) == Response("nil", err, "", {}, NoData)

DataResponse(data) == Response("data", "nil", "", {}, data)

NoResponse == Response("pending", "nil", "", {}, NoData)

\* an error response without an error, or with ErrInvalidRequest, is what
\* the caller is told is an invalid request
IsInvalidRequest(r) ==
  r.resp = "error" /\ r.err \in {"nil", "ErrInvalidRequest"}

IsFailure(r) == r.resp = "error" \/ r.err # "nil"

\* ------------------------------------------------------------------------
\* Policy store (keysutil.LockManager), from the design document
\* ------------------------------------------------------------------------
PolicyRequest(upsert, name, keyType, derived, convergent, exportable, allowPlaintextBackup, ident) ==
  [ Upsert               |-> upsert,
    Name                 |-> name,
    KeyType              |-> keyType,
    Derived              |-> derived,
    Convergent           |-> convergent,
    Exportable           |-> exportable,
    AllowPlaintextBackup |-> allowPlaintextBackup,
    Ident                |-> ident ]

\* the key ring that generating an OpenPGP key yields
GeneratedRing(keyType) ==
  IF keyType = "KeyType_OpenPGP" THEN "entity_one" ELSE "not_pgp"

\* get_or_create: the existing policy unchanged, or with Upsert a new policy
\* holding one version of fresh material, or nothing
GetPolicy(pols, r, seed) ==
  IF r.Name \in DOMAIN pols
    THEN [p |-> pols[r.Name], upserted |-> FALSE, err |-> "nil",
          policies |-> pols]
  ELSE IF ~r.Upsert
    THEN [p |-> NilPolicy, upserted |-> FALSE, err |-> "nil",
          policies |-> pols]
  ELSE IF r.Convergent /\ ~r.Derived
    THEN [p |-> NilPolicy, upserted |-> FALSE,
          err |-> "convergent encryption requires derivation to be enabled",
          policies |-> pols]
  ELSE
    LET entry == KeyEntry(r.KeyType,
                          KeyMaterial(seed, GeneratedRing(r.KeyType)), FALSE)
        new   == Policy(r.Name, r.KeyType, r.Derived, r.Convergent,
                        r.Exportable, r.AllowPlaintextBackup, FALSE, r.Ident,
                        ("1" :> entry), 1)
    IN  [p |-> new, upserted |-> TRUE, err |-> "nil",
         policies |-> (r.Name :> new) @@ pols]

\* delete: NotFound for an unknown name; the policy remains when the
\* deletion cannot complete
DeletePolicy(pols, name, fails) ==
  IF name \notin DOMAIN pols
    THEN [err |-> "could not delete key; not found", policies |-> pols]
  ELSE IF fails
    THEN [err |-> "deletion failed", policies |-> pols]
  ELSE [err |-> "nil",
        policies |-> [n \in (DOMAIN pols) \ {name} |-> pols[n]]]

\* one read/write lock per policy name
FreeLock == [writer |-> 0, readers |-> {}]

LockIsFree(l) == l.writer = 0 /\ l.readers = {}

\* the fetch takes the name's lock exclusively when caching is disabled, and
\* when the policy is not cached; with caching the policy comes back unlocked
CanFetch(noCache, pols, l, name) ==
  IF noCache THEN LockIsFree(l)
  ELSE name \in DOMAIN pols \/ l.writer = 0

\* Policy.Lock(exclusive)
PolicyLock(l, self, exclusive) ==
  IF exclusive THEN [l EXCEPT !.writer = self]
               ELSE [l EXCEPT !.readers = @ \cup {self}]

CanLock(l, exclusive) ==
  IF exclusive THEN LockIsFree(l) ELSE l.writer = 0

\* Policy.Unlock(): the write lock when the policy is marked write-locked,
\* the read lock otherwise; bad says that the lock was not held for self
PolicyUnlock(l, self, writeLocked) ==
  IF writeLocked
    THEN IF l.writer = self
           THEN [lock |-> [l EXCEPT !.writer = 0], bad |-> FALSE]
           ELSE [lock |-> l, bad |-> TRUE]
    ELSE IF self \in l.readers
           THEN [lock |-> [l EXCEPT !.readers = @ \ {self}], bad |-> FALSE]
           ELSE [lock |-> l, bad |-> TRUE]

\* ------------------------------------------------------------------------
\* State
\* ------------------------------------------------------------------------
VARIABLES
  cachingDisabled,   \* b.System().CachingDisabled()
  policies,          \* the stored policies, by name
  lock,              \* the lock of each name: its writer and its readers
  pc,                \* where each request handler stands
  req,               \* the request each handler serves (framework.FieldData)
  loc,               \* the handler's local variables
  result,            \* what the handler returned to its caller
  lockErr,           \* some handler released a lock that it did not hold
  served,            \* number of requests taken so far
  pgp                \* one call of extractOpenPGP: its arguments and result

vars == << cachingDisabled, policies, lock, pc, req, loc, result, lockErr,
           served, pgp >>

NoRequest == [op |-> "none", name |-> ""]

NoLocals ==
  [ p |-> NilPolicy, upserted |-> FALSE, writeLocked |-> FALSE,
    fetched |-> FALSE, context |-> <<>>, todo |-> {}, retKeys |-> <<>>,
    header |-> <<>> ]

NoPGPCall == [state |-> "unused"]

\* ------------------------------------------------------------------------
\* Policies found in storage when the backend starts: written and rotated by
\* earlier requests, some with damaged version keys or key rings
\* ------------------------------------------------------------------------
VersionKeys == { Itoa(v) : v \in 1..MaxVersions }

Persisted(type, derived, keyset, ring, latest) ==
  Policy("k1", type, derived, FALSE, FALSE, FALSE, TRUE, NoIdentity,
         [k \in keyset |-> KeyEntry(type, KeyMaterial("s0", ring), k = "1")],
         latest)

PersistedPolicies ==
  { Persisted(t, FALSE, VersionKeys,
              IF t = "KeyType_OpenPGP" THEN "entity_one" ELSE "not_pgp",
              MaxVersions) : t \in KeyTypes }
  \cup { Persisted("KeyType_ED25519", TRUE, VersionKeys, "not_pgp",
                   MaxVersions) }
  \cup { Persisted("KeyType_ED25519", TRUE, {"1", bad}, "not_pgp", 1) :
           bad \in {"x", "0"} }
  \cup { Persisted("KeyType_OpenPGP", FALSE, {"1"}, r, 1) :
           r \in {"unparsable", "empty", "entity_noid", "entity_two"} }

\* the flags that requests for a new key carry
FlagInputs ==
  { [derived |-> d, convergent |-> c, exportable |-> e,
     allowPlaintextBackup |-> e] : d, c, e \in BOOLEAN }

\* the context fields that requests carry
ContextInputs ==
  { <<>>,
    << "Y", "Q", "=", "=" >>,
    << "Y", "g", "=", "=" >>,
    << "\n" >>,
    << "Y", "Q" >>,
    << "!", "!", "=", "=" >> }

\* the requests that arrive: their types, flags and contexts
Inputs(types, flags, contexts) ==
  [types |-> types, flags |-> flags, contexts |-> contexts]

AllInputs == Inputs(TypeInputs, FlagInputs, ContextInputs)

InitWith(persisted) ==
  /\ cachingDisabled \in BOOLEAN
  /\ policies \in {<<>>} \cup { ("k1" :> pol) : pol \in persisted }
  /\ lock = [n \in Names |-> FreeLock]
  /\ pc = [self \in Procs |-> "idle"]
  /\ req = [self \in Procs |-> NoRequest]
  /\ loc = [self \in Procs |-> NoLocals]
  /\ result = [self \in Procs |-> NoResponse]
  /\ lockErr = FALSE
  /\ served = 0
  /\ pgp = NoPGPCall

Init == InitWith(PersistedPolicies)

\* a handler takes a request
Take(self) ==
  /\ pc[self] = "idle"
  /\ served < MaxRequests
  /\ served' = served + 1

\* the handler returns r to its caller
Return(self, r) ==
  /\ pc' = [pc EXCEPT ![self] = "idle"]
  /\ result' = [result EXCEPT ![self] = r]

\* the handler releases the policy's lock (p.Unlock())
Release(self) ==
  LET u == PolicyUnlock(lock[req[self].name], self, loc[self].writeLocked)
  IN  /\ lock' = [lock EXCEPT ![req[self].name] = u.lock]
      /\ lockErr' = (lockErr \/ u.bad)

\* ------------------------------------------------------------------------
\* pathPolicyWrite
\* ------------------------------------------------------------------------
\* the check left out
NeverRefused(derived, convergent) == FALSE

\* if !derived && convergent
ConvergentWithoutDerived(derived, convergent) == ~derived /\ convergent

\* p.Unlock() whatever the caching
WriteUnlocksAlways(noCache) == TRUE

\* if b.System().CachingDisabled() { p.Unlock() }
WriteUnlocks(noCache) == noCache

\* the warning is added to a response that is then dropped: return nil, nil
WriteResponse(upserted, name) == NilResponse

\* reading the fields, the check of convergent against derived, the switch
\* over the type
pathPolicyWrite_Validate(self, in) ==
  /\ Take(self)
  /\ \E name \in Names, keyType \in in.types, f \in in.flags,
        ident \in IdentityInputs :
     LET derived              == f.derived
         convergent           == f.convergent
         exportable           == f.exportable
         allowPlaintextBackup == f.allowPlaintextBackup
     IN
       /\ req' = [req EXCEPT ![self] =
                    [op |-> "write", name |-> name, type |-> keyType,
                     derived |-> derived, convergent |-> convergent,
                     exportable |-> exportable,
                     allowPlaintextBackup |-> allowPlaintextBackup,
                     ident |-> ident]]
       /\ loc' = [loc EXCEPT ![self] = NoLocals]
       /\ IF ConvergentWithoutDerived(derived, convergent)
            THEN Return(self, ErrorResponse(
                   "convergent encryption requires derivation to be enabled",
                   "nil"))
          ELSE IF keyType \notin RecognizedTypes
            THEN Return(self, ErrorResponse("unknown key type",
                                            "ErrInvalidRequest"))
          ELSE /\ pc' = [pc EXCEPT ![self] = "write_get"]
               /\ result' = [result EXCEPT ![self] = NoResponse]
  /\ UNCHANGED << cachingDisabled, policies, lock, lockErr, pgp >>

\* p, upserted, err := b.lm.GetPolicy(ctx, polReq, b.GetRandomReader())
pathPolicyWrite_GetPolicy(self) ==
  /\ pc[self] = "write_get"
  /\ CanFetch(cachingDisabled, policies, lock[req[self].name], req[self].name)
  /\ \E seed \in Seeds :
       LET r == req[self]
           g == GetPolicy(policies,
                          PolicyRequest(TRUE, r.name, KeyTypeOf[r.type],
                                        r.derived, r.convergent, r.exportable,
                                        r.allowPlaintextBackup, r.ident),
                          seed)
       IN  /\ policies' = g.policies
           /\ IF g.err # "nil"
                THEN /\ Return(self, ErrorOnly(g.err))
                     /\ loc' = [loc EXCEPT ![self].fetched = TRUE]
                     /\ UNCHANGED lock
              ELSE IF g.p = NilPolicy
                THEN /\ Return(self, ErrorOnly(
                          "error generating key: returned policy was nil"))
                     /\ loc' = [loc EXCEPT ![self].fetched = TRUE]
                     /\ UNCHANGED lock
              ELSE /\ loc' = [loc EXCEPT ![self].p = g.p,
                                         ![self].upserted = g.upserted,
                                         ![self].writeLocked = cachingDisabled,
                                         ![self].fetched = TRUE]
                   /\ lock' = IF cachingDisabled
                                THEN [lock EXCEPT ![r.name] =
                                        PolicyLock(@, self, TRUE)]
                                ELSE lock
                   /\ pc' = [pc EXCEPT ![self] = "write_fetched"]
                   /\ UNCHANGED result
  /\ UNCHANGED << cachingDisabled, req, lockErr, served, pgp >>

\* the release of the lock, the warning, the return
pathPolicyWrite_Finish(self) ==
  /\ pc[self] = "write_fetched"
  /\ IF WriteUnlocks(cachingDisabled)
       THEN Release(self)
       ELSE UNCHANGED << lock, lockErr >>
  /\ Return(self, WriteResponse(loc[self].upserted, req[self].name))
  /\ UNCHANGED << cachingDisabled, policies, req, loc, served, pgp >>

\* ------------------------------------------------------------------------
\* pathPolicyRead
\* ------------------------------------------------------------------------
\* the request of the Read with Upsert set
ReadPolicyRequestUpsert(name) ==
  PolicyRequest(TRUE, name, "KeyType_AES256_GCM96", FALSE, FALSE, FALSE,
                FALSE, NoIdentity)

\* keysutil.PolicyRequest{Storage: req.Storage, Name: name}
ReadPolicyRequest(name) ==
  PolicyRequest(FALSE, name, "KeyType_AES256_GCM96", FALSE, FALSE, FALSE,
                FALSE, NoIdentity)

\* the shared lock never taken
ReadNeverTakesLock(noCache) == FALSE

\* if !b.System().CachingDisabled() { p.Lock(false) }
ReadTakesLock(noCache) == ~noCache

\* resp.Data before the table of keys
Header(p) ==
  [ name                   |-> p.Name,
    type                   |-> p.Type,
    derived                |-> p.Derived,
    deletion_allowed       |-> p.DeletionAllowed,
    min_available_version  |-> p.MinAvailableVersion,
    min_decryption_version |-> p.MinDecryptionVersion,
    min_encryption_version |-> p.MinEncryptionVersion,
    latest_version         |-> p.LatestVersion,
    exportable             |-> p.Exportable,
    allow_plaintext_backup |-> p.AllowPlaintextBackup ]
  @@ (IF p.Derived
        THEN [ kdf |-> IF p.KDF = "Kdf_hmac_sha256_counter"
                         THEN "hmac-sha256-counter" ELSE "hkdf_sha256",
               convergent_encryption |-> p.ConvergentEncryption ]
             @@ (IF p.ConvergentEncryption
                   THEN [convergent_encryption_version |-> p.ConvergentVersion]
                   ELSE <<>>)
        ELSE <<>>)

\* if p.Type == keysutil.KeyType_OpenPGP: the identity fields
IdentityFields(p) ==
  IF p.Type = "KeyType_OpenPGP"
    THEN [real_name |-> p.RealName, email |-> p.Email, comment |-> p.Comment]
    ELSE <<>>

\* the error of the decoder dropped
DecodeContextLenient(contextRaw) ==
  [ok |-> TRUE, bytes |-> DecodeString(contextRaw).bytes]

\* the context field, decoded when it is not empty
DecodeContext(contextRaw) ==
  IF Len(contextRaw) # 0
    THEN DecodeString(contextRaw)
    ELSE [ok |-> TRUE, bytes |-> <<>>]

\* the calls of one iteration that may fail, by type
ReadFaults(type) ==
  CASE type = "KeyType_OpenPGP" -> {"armor.Encode", "Serialize", "Close"}
    [] type \in {"KeyType_RSA2048", "KeyType_RSA4096"} ->
         {"MarshalPKIXPublicKey", "EncodeToMemory"}
    [] OTHER -> {}

\* structs.New(key).Map()
AsymKeyMap(name, publicKey, creationTime) ==
  [name |-> name, public_key |-> publicKey, creation_time |-> creationTime]

KeyResult(ok, entry, err) == [ok |-> ok, entry |-> entry, err |-> err]

\* the stored public key returned whatever the context
Ed25519PublicKeyStored(p, k, v, context) ==
  [ok |-> TRUE, publicKey |-> v.FormattedPublicKey, err |-> "nil"]

\* case keysutil.KeyType_ED25519: the public key of a derived policy is
\* recomputed from the context, and empty without one
Ed25519PublicKey(p, k, v, context) ==
  IF p.Derived
    THEN IF Len(context) = 0
           THEN [ok |-> TRUE, publicKey |-> <<>>, err |-> "nil"]
         ELSE IF ~Atoi(k).ok
           THEN [ok |-> FALSE, publicKey |-> <<>>, err |-> "invalid version"]
         ELSE LET derived == DeriveKey(p, context, Atoi(k).val, 32)
              IN  IF ~derived.ok
                    THEN [ok |-> FALSE, publicKey |-> <<>>,
                          err |-> "failed to derive key to return public component"]
                    ELSE [ok |-> TRUE,
                          publicKey |->
                            EncodeToString(Ed25519Public(derived.key)),
                          err |-> "nil"]
    ELSE [ok |-> TRUE, publicKey |-> v.FormattedPublicKey, err |-> "nil"]

\* the RSA public key, marshalled and PEM-encoded
RSAPublicKey(v, faults) ==
  IF "MarshalPKIXPublicKey" \in faults
    THEN [ok |-> FALSE, publicKey |-> <<>>,
          err |-> "error marshaling RSA public key"]
  ELSE IF "EncodeToMemory" \in faults
    THEN [ok |-> FALSE, publicKey |-> <<>>,
          err |-> "failed to PEM-encode RSA public key"]
  ELSE [ok |-> TRUE,
        publicKey |-> << "pem", "PUBLIC KEY", << "pkix", v.Key.seed >> >>,
        err |-> "nil"]

\* one iteration of the loop over p.Keys of an asymmetric policy
AsymKey(p, k, v, context, faults, pick) ==
  LET creationTime == IF v.CreationTime = 0 THEN v.DeprecatedCreationTime
                                           ELSE v.CreationTime
  IN  CASE p.Type = "KeyType_ECDSA_P256" ->
             KeyResult(TRUE, AsymKeyMap("P-256", v.FormattedPublicKey,
                                        creationTime), "nil")
        [] p.Type = "KeyType_ECDSA_P384" ->
             KeyResult(TRUE, AsymKeyMap("P-384", v.FormattedPublicKey,
                                        creationTime), "nil")
        [] p.Type = "KeyType_ECDSA_P521" ->
             KeyResult(TRUE, AsymKeyMap("P-521", v.FormattedPublicKey,
                                        creationTime), "nil")
        [] p.Type = "KeyType_OpenPGP" ->
             LET x == extractOpenPGP(v.Key, PublicKeyType, faults, pick)
             IN  IF x.err # "nil"
                   THEN KeyResult(FALSE, <<>>, x.err)
                   ELSE KeyResult(TRUE,
                          AsymKeyMap(IF x.identity # "" THEN x.identity
                                                        ELSE "openpgp",
                                     x.retkey, creationTime), "nil")
        [] p.Type = "KeyType_ED25519" ->
             LET e == Ed25519PublicKey(p, k, v, context)
             IN  IF ~e.ok
                   THEN KeyResult(FALSE, <<>>, e.err)
                   ELSE KeyResult(TRUE, AsymKeyMap("ed25519", e.publicKey,
                                                   creationTime), "nil")
        [] p.Type \in {"KeyType_RSA2048", "KeyType_RSA4096"} ->
             LET e == RSAPublicKey(v, faults)
             IN  IF ~e.ok
                   THEN KeyResult(FALSE, <<>>, e.err)
                   ELSE KeyResult(TRUE,
                          AsymKeyMap(IF p.Type = "KeyType_RSA4096"
                                       THEN "rsa-4096" ELSE "rsa-2048",
                                     e.publicKey, creationTime), "nil")

\* one iteration of either loop: the entry of version k, or the error that
\* ends the request
ReadKey(p, k, context, faults, pick) ==
  IF p.Type \in SymmetricTypes
    THEN KeyResult(TRUE, p.Keys[k].DeprecatedCreationTime, "nil")
    ELSE AsymKey(p, k, p.Keys[k], context, faults, pick)

\* the table made anew in each iteration
RetKeysInsertAlone(retKeys, k, entry) == (k :> entry)

\* retKeys[k] = ...
RetKeysInsert(retKeys, k, entry) == (k :> entry) @@ retKeys

\* the fetch without Upsert; an unknown name is an empty success
pathPolicyRead_GetPolicy(self, in) ==
  /\ Take(self)
  /\ \E name \in Names, contextRaw \in in.contexts, seed \in Seeds :
       LET g == GetPolicy(policies, ReadPolicyRequest(name), seed)
       IN  /\ CanFetch(cachingDisabled, policies, lock[name], name)
           /\ req' = [req EXCEPT ![self] =
                        [op |-> "read", name |-> name, context |-> contextRaw]]
           /\ policies' = g.policies
           /\ IF g.err # "nil"
                THEN /\ Return(self, ErrorOnly(g.err))
                     /\ loc' = [loc EXCEPT ![self] =
                                  [NoLocals EXCEPT !.fetched = TRUE]]
                     /\ UNCHANGED lock
              ELSE IF g.p = NilPolicy
                THEN /\ Return(self, NilResponse)
                     /\ loc' = [loc EXCEPT ![self] =
                                  [NoLocals EXCEPT !.fetched = TRUE]]
                     /\ UNCHANGED lock
              ELSE /\ loc' = [loc EXCEPT ![self] =
                                [NoLocals EXCEPT !.p = g.p,
                                                 !.upserted = g.upserted,
                                                 !.writeLocked = cachingDisabled,
                                                 !.fetched = TRUE]]
                   /\ lock' = IF cachingDisabled
                                THEN [lock EXCEPT ![name] =
                                        PolicyLock(@, self, TRUE)]
                                ELSE lock
                   /\ pc' = [pc EXCEPT ![self] = "read_fetched"]
                   /\ result' = [result EXCEPT ![self] = NoResponse]
  /\ UNCHANGED << cachingDisabled, lockErr, pgp >>

\* the shared lock, the header of the description, the context
pathPolicyRead_Describe(self) ==
  /\ pc[self] = "read_fetched"
  /\ LET name   == req[self].name
         taken  == ReadTakesLock(cachingDisabled)
         locked == IF taken THEN PolicyLock(lock[name], self, FALSE)
                            ELSE lock[name]
         ctx    == DecodeContext(req[self].context)
     IN  /\ taken => CanLock(lock[name], FALSE)
         /\ IF ~ctx.ok
              THEN \* the deferred p.Unlock() runs on this return
                   LET u == PolicyUnlock(locked, self, loc[self].writeLocked)
                   IN  /\ lock' = [lock EXCEPT ![name] = u.lock]
                       /\ lockErr' = (lockErr \/ u.bad)
                       /\ loc' = [loc EXCEPT ![self].header = Header(loc[self].p)]
                       /\ Return(self, ErrorResponse(
                            "failed to base64-decode context",
                            "ErrInvalidRequest"))
              ELSE /\ lock' = [lock EXCEPT ![name] = locked]
                   /\ loc' = [loc EXCEPT ![self].header = Header(loc[self].p),
                                         ![self].context = ctx.bytes,
                                         ![self].todo = DOMAIN loc[self].p.Keys]
                   /\ pc' = [pc EXCEPT ![self] = "read_keys"]
                   /\ UNCHANGED << result, lockErr >>
  /\ UNCHANGED << cachingDisabled, policies, req, served, pgp >>

\* one iteration of the loop over p.Keys, in the order the map yields them
pathPolicyRead_Key(self) ==
  /\ pc[self] = "read_keys"
  /\ \E k \in loc[self].todo :
     \E faults \in SUBSET ReadFaults(loc[self].p.Type) :
     \E pick \in (IF RingIdentities(loc[self].p.Keys[k].Key.ring) = {}
                    THEN {""}
                    ELSE RingIdentities(loc[self].p.Keys[k].Key.ring)) :
       LET e == ReadKey(loc[self].p, k, loc[self].context, faults, pick)
       IN  IF ~e.ok
             THEN /\ Release(self)
                  /\ Return(self, ErrorOnly(e.err))
                  /\ UNCHANGED loc
             ELSE /\ loc' = [loc EXCEPT
                               ![self].todo = @ \ {k},
                               ![self].retKeys = RetKeysInsert(@, k, e.entry)]
                  /\ UNCHANGED << lock, lockErr, pc, result >>
  /\ UNCHANGED << cachingDisabled, policies, req, served, pgp >>

\* resp.Data["keys"] = retKeys; return resp, nil
pathPolicyRead_Return(self) ==
  /\ pc[self] = "read_keys"
  /\ loc[self].todo = {}
  /\ Release(self)
  /\ Return(self, DataResponse(
       [header |-> loc[self].header @@ IdentityFields(loc[self].p),
        keys   |-> loc[self].retKeys]))
  /\ UNCHANGED << cachingDisabled, policies, req, loc, served, pgp >>

\* ------------------------------------------------------------------------
\* pathPolicyDelete
\* ------------------------------------------------------------------------
\* the error of DeletePolicy dropped
DeleteResponseSwallowed(name, err) == NilResponse

\* the response for the error of DeletePolicy
DeleteResponse(name, err) ==
  IF err # "nil"
    THEN ErrorResponse(<< "error deleting policy", name, err >>, err)
    ELSE NilResponse

\* b.lm.DeletePolicy: the deletion takes exclusive access first
pathPolicyDelete_Lock(self) ==
  /\ Take(self)
  /\ \E name \in Names :
       /\ CanLock(lock[name], TRUE)
       /\ lock' = [lock EXCEPT ![name] = PolicyLock(@, self, TRUE)]
       /\ req' = [req EXCEPT ![self] = [op |-> "delete", name |-> name]]
  /\ loc' = [loc EXCEPT ![self] = NoLocals]
  /\ pc' = [pc EXCEPT ![self] = "delete_locked"]
  /\ result' = [result EXCEPT ![self] = NoResponse]
  /\ UNCHANGED << cachingDisabled, policies, lockErr, pgp >>

\* the deletion itself, the release, the response
pathPolicyDelete_Finish(self) ==
  /\ pc[self] = "delete_locked"
  /\ \E fails \in BOOLEAN :
       LET name == req[self].name
           d    == DeletePolicy(policies, name, fails)
       IN  /\ policies' = d.policies
           /\ lock' = [lock EXCEPT ![name] = [@ EXCEPT !.writer = 0]]
           /\ Return(self, DeleteResponse(name, d.err))
  /\ UNCHANGED << cachingDisabled, req, loc, lockErr, served, pgp >>

\* requests of every kind, served one at a time
Next ==
  \E self \in {1} :
    \/ pathPolicyWrite_Validate(self, AllInputs)
    \/ pathPolicyWrite_GetPolicy(self)
    \/ pathPolicyWrite_Finish(self)
    \/ pathPolicyRead_GetPolicy(self, AllInputs)
    \/ pathPolicyRead_Describe(self)
    \/ pathPolicyRead_Key(self)
    \/ pathPolicyRead_Return(self)
    \/ pathPolicyDelete_Lock(self)
    \/ pathPolicyDelete_Finish(self)

Spec == Init /\ [][Next]_vars

\* ------------------------------------------------------------------------
\* Concurrent handlers: any handler may take a request while others are in
\* flight; the requests are drawn from a narrower set
\* ------------------------------------------------------------------------
ConcurrentInputs ==
  Inputs({"ed25519"},
         {[derived |-> TRUE, convergent |-> FALSE, exportable |-> FALSE,
           allowPlaintextBackup |-> FALSE]},
         { <<>>, << "Y", "Q", "=", "=" >>, << "Y", "g", "=", "=" >>,
           << "Y", "Q" >> })

ConcurrentPersisted ==
  { pol \in PersistedPolicies :
      \/ pol.Type = "KeyType_AES256_GCM96"
      \/ pol.Type = "KeyType_ED25519" /\ pol.Derived }

InitConcurrent == InitWith(ConcurrentPersisted)

NextConcurrent ==
  \E self \in Procs :
    \/ pathPolicyWrite_Validate(self, ConcurrentInputs)
    \/ pathPolicyWrite_GetPolicy(self)
    \/ pathPolicyWrite_Finish(self)
    \/ pathPolicyRead_GetPolicy(self, ConcurrentInputs)
    \/ pathPolicyRead_Describe(self)
    \/ pathPolicyRead_Key(self)
    \/ pathPolicyRead_Return(self)
    \/ pathPolicyDelete_Lock(self)
    \/ pathPolicyDelete_Finish(self)

SpecConcurrent == InitConcurrent /\ [][NextConcurrent]_vars

\* ------------------------------------------------------------------------
\* extractOpenPGP on its own: every key ring, block type, failing call and
\* first identity
\* ------------------------------------------------------------------------
BlockTypes == {PublicKeyType, PrivateKeyType, "PGP MESSAGE"}

InitPGP ==
  /\ cachingDisabled = FALSE
  /\ policies = <<>>
  /\ lock = [n \in Names |-> FreeLock]
  /\ pc = [self \in Procs |-> "idle"]
  /\ req = [self \in Procs |-> NoRequest]
  /\ loc = [self \in Procs |-> NoLocals]
  /\ result = [self \in Procs |-> NoResponse]
  /\ lockErr = FALSE
  /\ served = 0
  /\ \E ring \in RingKinds, seed \in Seeds, blockType \in BlockTypes,
        faults \in SUBSET PGPCalls :
     \E pick \in (IF RingIdentities(ring) = {} THEN {""}
                                              ELSE RingIdentities(ring)) :
       pgp = [state |-> "called", key |-> KeyMaterial(seed, ring),
              blockType |-> blockType, faults |-> faults, pick |-> pick,
              ret |-> PGPReturn(<<>>, "", "nil")]

extractOpenPGP_Call ==
  /\ pgp.state = "called"
  /\ pgp' = [pgp EXCEPT
               !.state = "returned",
               !.ret = extractOpenPGP(pgp.key, pgp.blockType, pgp.faults,
                                      pgp.pick)]
  /\ UNCHANGED << cachingDisabled, policies, lock, pc, req, loc, result,
                  lockErr, served >>

NextPGP == extractOpenPGP_Call

SpecPGP == InitPGP /\ [][NextPGP]_vars

\* ------------------------------------------------------------------------
\* Properties
\* ------------------------------------------------------------------------
\* handler self has returned from a request of kind op
Completed(self, op) == pc[self] = "idle" /\ req[self].op = op

\* handler self has returned from a Create/Update that fetched a policy
CompletedWrite(self) ==
  /\ Completed(self, "write")
  /\ loc[self].fetched
  /\ loc[self].p # NilPolicy

AlreadyExisted(name) == << "key", name, "already existed" >>

\* C1: a Create/Update on a name that already holds a policy reports
\* created=false and returns the warning "key <name> already existed", the
\* stored policy being what the fetch found; a Create/Update that created
\* the policy returns no such warning.
C1_ExistingNameIsWarned ==
  \A self \in Procs :
    CompletedWrite(self) =>
      /\ req[self].name \in DOMAIN policies
      /\ policies[req[self].name] = loc[self].p
      /\ ~loc[self].upserted =>
           AlreadyExisted(req[self].name) \in result[self].warnings
      /\ loc[self].upserted =>
           AlreadyExisted(req[self].name) \notin result[self].warnings

C3_ConvergentNeedsDerived ==
  /\ \A self \in Procs :
       (req[self].op = "write" /\ req[self].convergent /\ ~req[self].derived)
         => /\ pc[self] = "idle"
            /\ IsInvalidRequest(result[self])
            /\ ~loc[self].fetched
            /\ loc[self].p = NilPolicy
  /\ \A n \in DOMAIN policies :
       policies[n].ConvergentEncryption => policies[n].Derived

\* such a request, of an unrecognized type, refused while the name is free
C3_Witness ==
  \E self \in Procs :
    /\ Completed(self, "write")
    /\ req[self].convergent /\ ~req[self].derived
    /\ req[self].type = "bogus"
    /\ IsInvalidRequest(result[self])
    /\ req[self].name \notin DOMAIN policies

\* handler self has returned the description of a derived Ed25519 policy
DescribedDerivedEd25519(self) ==
  /\ Completed(self, "read")
  /\ result[self].resp = "data"
  /\ loc[self].p.Type = "KeyType_ED25519"
  /\ loc[self].p.Derived

PublicKeys(self) ==
  [k \in DOMAIN result[self].data.keys |-> result[self].data.keys[k].public_key]

\* C4: the description of a derived Ed25519 policy holds an empty public key
\* for every version when the context is empty, and with a context a
\* non-empty encoded key that is not the stored one; a Read of such a policy
\* without context succeeds; two Reads of one policy return the same public
\* keys with the same context and different ones, version by version, with
\* different contexts.
C4_DerivedEd25519PublicKey ==
  /\ \A self \in Procs :
       DescribedDerivedEd25519(self) =>
         \A k \in DOMAIN loc[self].p.Keys :
           /\ k \in DOMAIN result[self].data.keys
           /\ IF Len(loc[self].context) = 0
                THEN PublicKeys(self)[k] = <<>>
                ELSE /\ PublicKeys(self)[k] # <<>>
                     /\ PublicKeys(self)[k] =
                          EncodeToString(Ed25519Public(
                            DeriveKey(loc[self].p, loc[self].context,
                                      Atoi(k).val, 32).key))
                     /\ PublicKeys(self)[k] #
                          loc[self].p.Keys[k].FormattedPublicKey
  /\ \A self \in Procs :
       ( /\ Completed(self, "read")
         /\ loc[self].p.Type = "KeyType_ED25519"
         /\ loc[self].p.Derived
         /\ req[self].context = <<>> ) => result[self].resp = "data"
  /\ \A a, b \in Procs :
       ( /\ DescribedDerivedEd25519(a)
         /\ DescribedDerivedEd25519(b)
         /\ loc[a].p = loc[b].p ) =>
           IF loc[a].context = loc[b].context
             THEN PublicKeys(a) = PublicKeys(b)
             ELSE \A k \in DOMAIN loc[a].p.Keys :
                    PublicKeys(a)[k] # PublicKeys(b)[k]

\* two Reads of one derived Ed25519 policy of several versions, returned
\* with different non-empty contexts
C4_Witness ==
  \E a, b \in Procs :
    /\ a # b
    /\ DescribedDerivedEd25519(a)
    /\ DescribedDerivedEd25519(b)
    /\ loc[a].p = loc[b].p
    /\ Cardinality(DOMAIN loc[a].p.Keys) > 1
    /\ Len(loc[a].context) # 0
    /\ Len(loc[b].context) # 0
    /\ loc[a].context # loc[b].context

\* C6: no Read builds its description while a Delete of the same name holds
\* exclusive access, and a description that a Read returns is the complete
\* description of the policy that it fetched.
C6_ReadExcludesDelete ==
  /\ \A r, d \in Procs :
       ~ ( /\ pc[r] = "read_keys"
           /\ pc[d] = "delete_locked"
           /\ req[r].name = req[d].name )
  /\ \A r \in Procs :
       (Completed(r, "read") /\ result[r].resp = "data") =>
         /\ result[r].data.header =
              Header(loc[r].p) @@ IdentityFields(loc[r].p)
         /\ DOMAIN result[r].data.keys = DOMAIN loc[r].p.Keys

\* a Read that has fetched the policy waits while a Delete of the same name
\* holds exclusive access
C6_Witness ==
  \E r, d \in Procs :
    /\ pc[r] = "read_fetched"
    /\ pc[d] = "delete_locked"
    /\ req[r].name = req[d].name
    /\ ~cachingDisabled

\* C7: a Delete of a name that holds no policy reports a failure and
\* leaves the stored policies as they were; a Delete that reports a failure
\* leaves them as they were; a Delete that succeeds removes the policy of
\* its name and no other; and the Read that follows a successful Delete of
\* the same name returns the absent result.
C7_DeleteOutcome ==
  [][ \A self \in Procs :
        /\ (pc[self] = "delete_locked" /\ pc'[self] = "idle") =>
             /\ req[self].name \notin DOMAIN policies =>
                  IsFailure(result'[self])
             /\ IsFailure(result'[self]) =>
                  /\ result'[self].err # "nil"
                  /\ policies' = policies
             /\ ~IsFailure(result'[self]) =>
                  /\ req[self].name \in DOMAIN policies
                  /\ DOMAIN policies' = (DOMAIN policies) \ {req[self].name}
                  /\ \A n \in DOMAIN policies' : policies'[n] = policies[n]
        /\ ( /\ Completed(self, "delete")
             /\ ~IsFailure(result[self])
             /\ served' = served + 1
             /\ req'[self].op = "read"
             /\ req'[self].name = req[self].name ) =>
               /\ pc'[self] = "idle"
               /\ result'[self] = NilResponse
               /\ policies' = policies
    ]_vars

\* a Delete has returned with success: the policy of its name is gone
C7_Witness ==
  \E self \in Procs :
    /\ Completed(self, "delete")
    /\ ~IsFailure(result[self])
    /\ result[self] = NilResponse
    /\ req[self].name \notin DOMAIN policies

\* the context fields that are not empty and that base64 does not decode
MalformedContexts == { << "Y", "Q" >>, << "!", "!", "=", "=" >> }

\* C8: a Read of a stored policy, of any type, whose context is not empty
\* and not valid base64 ends as an invalid request before the loop over the
\* versions: no entry is computed and no description is returned.
C8_MalformedContextFailsFirst ==
  \A self \in Procs :
    ( /\ req[self].op = "read"
      /\ req[self].context \in MalformedContexts
      /\ loc[self].p # NilPolicy ) =>
        /\ pc[self] # "read_keys"
        /\ loc[self].retKeys = <<>>
        /\ loc[self].todo = {}
        /\ pc[self] = "idle" =>
             /\ result[self].resp = "error"
             /\ result[self].err = "ErrInvalidRequest"
             /\ result[self].data = NoData

\* such a Read of a symmetric policy of several versions, returned
C8_Witness ==
  \E self \in Procs :
    /\ Completed(self, "read")
    /\ req[self].context \in MalformedContexts
    /\ loc[self].p.Type \in SymmetricTypes
    /\ Cardinality(DOMAIN loc[self].p.Keys) > 1
    /\ result[self].err = "ErrInvalidRequest"

\* a step of pathPolicyRead by handler self: it takes a Read, or moves on in
\* the one that it serves
ReadStep(self) ==
  \/ /\ pc[self] = "idle"
     /\ served' = served + 1
     /\ req'[self].op = "read"
     /\ \A other \in Procs \ {self} :
          /\ pc'[other] = pc[other]
          /\ req'[other] = req[other]
          /\ result'[other] = result[other]
  \/ /\ pc[self] \in {"read_fetched", "read_keys"}
     /\ pc'[self] # pc[self] \/ loc'[self] # loc[self]

\* C9: no step of a Read changes the stored policies, and the Read of a name
\* that holds no policy returns the empty success and leaves every lock as
\* it was.
C9_ReadChangesNothing ==
  [][ \A self \in Procs :
        ReadStep(self) =>
          /\ policies' = policies
          /\ ( /\ pc[self] = "idle"
               /\ req'[self].name \notin DOMAIN policies ) =>
                 /\ pc'[self] = "idle"
                 /\ result'[self] = NilResponse
                 /\ lock' = lock
    ]_vars

\* the Read of a name that holds no policy has returned, with a context,
\* caching disabled
C9_Witness ==
  \E self \in Procs :
    /\ Completed(self, "read")
    /\ req[self].name \notin DOMAIN policies
    /\ req[self].context # <<>>
    /\ result[self] = NilResponse
    /\ loc[self].fetched
    /\ cachingDisabled

\* the entry of version k can be produced when nothing fails on the way
Producible(p, k, context) ==
  \E pick \in RingIdentities(p.Keys[k].Key.ring) \cup {""} :
    ReadKey(p, k, context, {}, pick).ok

PGPFailureInside ==
  \/ pgp.key.ring \in {"not_pgp", "unparsable", "empty"}
  \/ pgp.blockType \notin {PublicKeyType, PrivateKeyType}
  \/ "armor.Encode" \in pgp.faults
  \/ pgp.blockType = PublicKeyType /\ "Serialize" \in pgp.faults
  \/ pgp.blockType = PrivateKeyType /\ "Write" \in pgp.faults
  \/ "Close" \in pgp.faults

\* C5: whenever something fails inside extractOpenPGP, for either block
\* type, the function returns an error; it returns no nil error together
\* with an empty or incomplete armored text.
C5_EveryFailureSurfaces ==
  pgp.state = "returned" =>
    /\ PGPFailureInside => pgp.ret.err # "nil"
    /\ pgp.ret.err = "nil" =>
         /\ pgp.ret.retkey # <<>>
         /\ pgp.ret.retkey[4] = "complete"

====
